---- MODULE Spec2Model ----
(***************************************************************************)
(* Model of app.py: the statement/expense reconciliation pipeline.         *)
(*                                                                         *)
(* Text is a sequence of one-character strings; an offset o of the Python  *)
(* code (0-based) is position o+1 of the sequence.  An amount is kept as   *)
(* its number of cents c; the Python value is the IEEE-754 double nearest  *)
(* to c/100 (what float("d.dd") returns), and the comparisons of           *)
(* match_transactions are computed on those doubles, bit by bit.           *)
(***************************************************************************)
EXTENDS Integers, Sequences, FiniteSets, TLC

VARIABLES entry, pc, pdf_text, person_name, period, sections, selected,
          span, pdf_txns, excel_txns, available, origin, missing, matched,
          assign, totals, error

vars == <<entry, pc, pdf_text, person_name, period, sections, selected,
          span, pdf_txns, excel_txns, available, origin, missing, matched,
          assign, totals, error>>

\* Python's None: of an error or a pending value, of a name, of a date and of
\* an offset (an offset is never below -1, the "no summary" mark of line 140).
None == "None"

NoName == <<"None">>

NoDate == <<>>

NoPos == -2

Min(S) == CHOOSE x \in S : \A y \in S : x <= y

Max(S) == CHOOSE x \in S : \A y \in S : y <= x

(***************************************************************************)
(* IEEE-754 binary64 arithmetic of the match predicate.                    *)
(* A magnitude is a fixed-point bit vector, most significant bit first:    *)
(* IntBits integer bits then FracBits fraction bits.  Every double that    *)
(* occurs (amounts and sums under 128, plus or minus 0.5) is exactly such  *)
(* a vector: its 53 significant bits lie at or above 2^-59.                *)
(***************************************************************************)
MantBits == 53
IntBits == 7
FracBits == 61
Width == IntBits + FracBits

Zeros(n) == [j \in 1..n |-> 0]

\* Position of the leading 1 of a vector, Width + 1 when it is zero.
Lead(v) == IF \E k \in 1..Width : v[k] = 1
           THEN Min({k \in 1..Width : v[k] = 1}) ELSE Width + 1

\* Add one unit in the last place at position k, carrying to the left: the
\* nearest 0 at or left of k becomes 1 and the 1s after it, up to k, become 0.
IncAt(v, k) ==
  LET zs == {j \in 1..k : v[j] = 0}
      z == IF zs = {} THEN 0 ELSE Max(zs)
  IN [j \in 1..Width |-> IF j < z \/ j > k THEN v[j] ELSE IF j = z THEN 1 ELSE 0]

\* Round to nearest, ties to even, keeping MantBits significant bits.
\* sticky tells that the exact value exceeds the vector by a nonzero amount
\* smaller than its last bit.
Round53(v, sticky) ==
  LET p == Lead(v)
      last == p + MantBits - 1
  IN IF last >= Width THEN v
     ELSE LET rnd == v[last + 1]
              rest == sticky \/ \E j \in (last + 2)..Width : v[j] = 1
              kept == SubSeq(v, 1, last) \o Zeros(Width - last)
          IN IF rnd = 1 /\ (rest \/ v[last] = 1)
             THEN SubSeq(IncAt(kept, last), 1, Width) ELSE kept

\* The n low bits of q, most significant first.
RECURSIVE IntPart(_, _)
IntPart(q, n) ==
  IF n = 0 THEN <<>> ELSE IntPart(q \div 2, n - 1) \o <<q % 2>>

\* Long division of rem/100: the next n fraction bits, and the remainder left
\* (the first half of the bits, then the rest from the remainder they leave).
RECURSIVE Expand(_, _)
Expand(rem, n) ==
  IF n = 0 THEN [bits |-> <<>>, rem |-> rem]
  ELSE IF n = 1
  THEN [bits |-> <<IF 2 * rem >= 100 THEN 1 ELSE 0>>, rem |-> (2 * rem) % 100]
  ELSE LET first == Expand(rem, n \div 2)
           rest == Expand(first.rem, n - n \div 2)
       IN [bits |-> first.bits \o rest.bits, rem |-> rest.rem]

\* float("q.rr") for c = 100q + rr cents: the binary expansion of c/100,
\* correctly rounded.
FromCents(c) ==
  LET frac == Expand(c % 100, FracBits)
  IN Round53(IntPart(c \div 100, IntBits) \o frac.bits, frac.rem # 0)

Half == Zeros(IntBits) \o <<1>> \o Zeros(FracBits - 1)

\* x <= y on magnitudes.
MagLe(x, y) ==
  \/ x = y
  \/ \E k \in 1..Width : /\ x[k] < y[k]
                         /\ \A j \in 1..(k - 1) : x[j] = y[j]

\* Exact x + y on positions lo..hi with carry in cin: the carry out and the
\* sum bits (the low half first, its carry into the high half).
RECURSIVE AddRange(_, _, _, _, _)
AddRange(x, y, lo, hi, cin) ==
  IF lo = hi
  THEN LET s == x[lo] + y[lo] + cin IN [c |-> s \div 2, bits |-> <<s % 2>>]
  ELSE LET mid == (lo + hi) \div 2
           low == AddRange(x, y, mid + 1, hi, cin)
           high == IF low.c = 0 THEN AddRange(x, y, lo, mid, 0)
                   ELSE AddRange(x, y, lo, mid, 1)
       IN [c |-> high.c, bits |-> high.bits \o low.bits]

MagAdd(x, y) == AddRange(x, y, 1, Width, 0).bits

\* Exact x - y (x >= y) on positions lo..hi with borrow in bin.
RECURSIVE SubRange(_, _, _, _, _)
SubRange(x, y, lo, hi, bin) ==
  IF lo = hi
  THEN LET d == x[lo] - y[lo] - bin
       IN [c |-> IF d < 0 THEN 1 ELSE 0, bits |-> <<(d + 2) % 2>>]
  ELSE LET mid == (lo + hi) \div 2
           low == SubRange(x, y, mid + 1, hi, bin)
           high == IF low.c = 0 THEN SubRange(x, y, lo, mid, 0)
                   ELSE SubRange(x, y, lo, mid, 1)
       IN [c |-> high.c, bits |-> high.bits \o low.bits]

MagSub(x, y) == SubRange(x, y, 1, Width, 0).bits

\* A double: sign and magnitude.
FloatOf(c) == [neg |-> FALSE, mag |-> FromCents(c)]

\* amt + 0.50 and amt - 0.50 in double arithmetic.
FPlusHalf(f) == [neg |-> FALSE, mag |-> Round53(MagAdd(f.mag, Half), FALSE)]

FMinusHalf(f) ==
  IF MagLe(Half, f.mag)
  THEN [neg |-> FALSE, mag |-> Round53(MagSub(f.mag, Half), FALSE)]
  ELSE [neg |-> TRUE, mag |-> Round53(MagSub(Half, f.mag), FALSE)]

\* x <= y on doubles (no negative zero arises: a negative result is nonzero).
FLe(x, y) ==
  IF x.neg /\ ~y.neg THEN TRUE
  ELSE IF ~x.neg /\ y.neg THEN FALSE
  ELSE IF x.neg THEN MagLe(y.mag, x.mag)
  ELSE MagLe(x.mag, y.mag)

\* amt - 0.50 <= t['amount'] <= amt + 0.50
InWindow(amt, t) ==
  /\ FLe(FMinusHalf(FloatOf(amt)), FloatOf(t))
  /\ FLe(FloatOf(t), FPlusHalf(FloatOf(amt)))

(***************************************************************************)
(* Characters and strings.  A string is a sequence of characters; a        *)
(* character is a one-character TLA+ string, except the transaction        *)
(* glyphs, written by their code point ("u25CA" is U+25CA).               *)
(***************************************************************************)
Uppers == <<"A", "B", "C", "D", "E", "F", "G", "H", "I", "J", "K", "L", "M",
            "N", "O", "P", "Q", "R", "S", "T", "U", "V", "W", "X", "Y", "Z">>

Lowers == <<"a", "b", "c", "d", "e", "f", "g", "h", "i", "j", "k", "l", "m",
            "n", "o", "p", "q", "r", "s", "t", "u", "v", "w", "x", "y", "z">>

Digits == <<"0", "1", "2", "3", "4", "5", "6", "7", "8", "9">>

Range(s) == {s[i] : i \in 1..Len(s)}

UpperSet == Range(Uppers)

DigitSet == Range(Digits)

\* Python's \s and str.isspace on the characters a decoded text holds.
IsSpace(c) == c \in {" ", "\n", "\t", "\r", "\f"}

\* The delimiter class of the transaction split (line 164).
Glyphs == {"u25CA", "u2B27", "u2B25", "u25C6", "u25C7", "u29EB", "u2B26",
           "u2B29", "|"}

\* A sequence given as a function, as a tuple.
Tup(f, n) == SubSeq(f, 1, n)

\* str.upper
ToUpper(c) == IF \E i \in 1..26 : Lowers[i] = c
              THEN Uppers[CHOOSE i \in 1..26 : Lowers[i] = c] ELSE c

StrUpper(s) == Tup([i \in 1..Len(s) |-> ToUpper(s[i])], Len(s))

\* s[a:b] of Python for 0 <= a, b (0-based, end exclusive, clipped).
Slice(s, a, b) == SubSeq(s, a + 1, IF b > Len(s) THEN Len(s) ELSE b)

\* str.strip
Strip(s) ==
  LET ns == {i \in 1..Len(s) : ~IsSpace(s[i])}
  IN IF ns = {} THEN <<>> ELSE SubSeq(s, Min(ns), Max(ns))

\* The tokens of str.split(), as (first, last) positions in order of first.
TokenSpans(s) ==
  {<<i, Min({j \in i..Len(s) : j = Len(s) \/ IsSpace(s[j + 1])})>> :
     i \in {i \in 1..Len(s) : ~IsSpace(s[i]) /\ (i = 1 \/ IsSpace(s[i - 1]))}}

\* set(s.split())
TokenSet(s) == {SubSeq(s, sp[1], sp[2]) : sp \in TokenSpans(s)}

\* ' '.join(s.split()): each inner run of whitespace becomes one space, the
\* leading and trailing runs go.
Collapse(s) ==
  LET n == Len(s)
      mark == Tup([i \in 1..n |->
                IF ~IsSpace(s[i]) THEN s[i]
                ELSE IF i > 1 /\ ~IsSpace(s[i - 1])
                        /\ \E j \in (i + 1)..n : ~IsSpace(s[j])
                     THEN " " ELSE "drop"], n)
  IN SelectSeq(mark, LAMBDA c : c # "drop")

\* x.startswith(y)
StartsWith(x, y) == Len(y) <= Len(x) /\ SubSeq(x, 1, Len(y)) = y

\* y in x  (substring)
Contains(x, y) ==
  \E i \in 0..(Len(x) - Len(y)) : SubSeq(x, i + 1, i + Len(y)) = y

\* The literal lit matches text at position i (1-based).
LitAt(text, i, lit) ==
  /\ i >= 1 /\ i + Len(lit) - 1 <= Len(text)
  /\ \A k \in 1..Len(lit) : text[i + k - 1] = lit[k]

\* The same under re.IGNORECASE.
LitAtNoCase(text, i, lit) ==
  /\ i >= 1 /\ i + Len(lit) - 1 <= Len(text)
  /\ \A k \in 1..Len(lit) : ToUpper(text[i + k - 1]) = ToUpper(lit[k])

\* The length of the run of characters of class cls that starts at i.
RunLen(text, i, cls) ==
  CHOOSE k \in 0..(Len(text) + 1 - i) :
    /\ i + k > Len(text) \/ text[i + k] \notin cls
    /\ \A j \in 0..(k - 1) : text[i + j] \in cls

WhiteSet == {" ", "\n", "\t", "\r", "\f"}

\* \d{2}/\d{2}/\d{2} at position i.
DateAt(text, i) ==
  /\ i >= 1 /\ i + 7 <= Len(text)
  /\ \A k \in {0, 1, 3, 4, 6, 7} : text[i + k] \in DigitSet
  /\ text[i + 2] = "/" /\ text[i + 5] = "/"

DigitVal(c) == (CHOOSE i \in 1..10 : Digits[i] = c) - 1

\* int() of a string of digits.
RECURSIVE IntOf(_)
IntOf(s) == IF s = <<>> THEN 0
            ELSE 10 * IntOf(SubSeq(s, 1, Len(s) - 1)) + DigitVal(s[Len(s)])

(***************************************************************************)
(* parse_statement_period                                                  *)
(***************************************************************************)
ClosingDateLit == <<"C", "l", "o", "s", "i", "n", "g", " ", "D", "a", "t",
    "e">>

CardEndingLit == <<"C", "a", "r", "d", " ", "E", "n", "d", "i", "n", "g">>

CardEndingUpper == <<"C", "A", "R", "D", " ", "E", "N", "D", "I", "N", "G">>

DaysIn(m, y) ==
  IF m = 2 THEN (IF y % 4 = 0 /\ (y % 100 # 0 \/ y % 400 = 0) THEN 29 ELSE 28)
  ELSE IF m \in {4, 6, 9, 11} THEN 30 ELSE 31

\* datetime.strptime(s, "%m/%d/%y").date(): <<month, day, year>>, or NoDate
\* where strptime raises.
StrpDate(s) ==
  LET m == IntOf(SubSeq(s, 1, 2))
      d == IntOf(SubSeq(s, 4, 5))
      yy == IntOf(SubSeq(s, 7, 8))
      y == IF yy >= 69 THEN 1900 + yy ELSE 2000 + yy
  IN IF m \in 1..12 /\ d >= 1 /\ d <= DaysIn(m, y) THEN <<m, d, y>> ELSE NoDate

\* date - timedelta(days=n)
RECURSIVE MinusDays(_, _)
MinusDays(date, n) ==
  IF n = 0 THEN date
  ELSE IF date[2] > n THEN <<date[1], date[2] - n, date[3]>>
  ELSE LET pm == IF date[1] = 1 THEN 12 ELSE date[1] - 1
           py == IF date[1] = 1 THEN date[3] - 1 ELSE date[3]
       IN MinusDays(<<pm, DaysIn(pm, py), py>>, n - date[2])

\* The starts (1-based) of the matches of Closing Date\s*(\d{2}/\d{2}/\d{2}).
ClosingMatches(text) ==
  {i \in 1..Len(text) :
     /\ LitAt(text, i, ClosingDateLit)
     /\ DateAt(text, i + 12 + RunLen(text, i + 12, WhiteSet))}

\* [err, start, end]: err is the exception raised, None when it returns.
parse_statement_period(text) ==
  LET ms == ClosingMatches(text)
  IN IF ms = {} THEN [err |-> "PeriodNotFound", start |-> NoDate, end |-> NoDate]
     ELSE LET i == Min(ms)
              d == i + 12 + RunLen(text, i + 12, WhiteSet)
              end == StrpDate(SubSeq(text, d, d + 7))
          IN IF end = NoDate
             THEN [err |-> "BadDate", start |-> NoDate, end |-> NoDate]
             ELSE [err |-> None, start |-> MinusDays(end, 30), end |-> end]

(***************************************************************************)
(* find_cardholder_sections                                                *)
(***************************************************************************)
NameClass == UpperSet \cup {" "}

MaxNameRun == 80

\* ([A-Z][A-Z ]{1,80}?)\s+Card Ending tried at position i: the number n of
\* characters the lazy {1,80}? takes, 0 when there is no match at i.  The
\* \s+ takes the whole run of whitespace (the literal starts with a letter).
NameRun(text, i) ==
  IF i > Len(text) \/ text[i] \notin UpperSet THEN 0
  ELSE LET run == RunLen(text, i + 1, NameClass)
           top == IF run > MaxNameRun THEN MaxNameRun ELSE run
           ok == {n \in 1..top :
                    LET w == RunLen(text, i + n + 1, WhiteSet)
                    IN w >= 1 /\ LitAt(text, i + n + 1 + w, CardEndingLit)}
       IN IF ok = {} THEN 0 ELSE Min(ok)

\* re.finditer from position from: the matches left to right, none
\* overlapping, each as (name.strip(), m.start()).
RECURSIVE SectionsFrom(_, _)
SectionsFrom(text, from) ==
  LET starts == {i \in from..Len(text) : NameRun(text, i) > 0}
  IN IF starts = {} THEN <<>>
     ELSE LET i == Min(starts)
              n == NameRun(text, i)
              w == RunLen(text, i + n + 1, WhiteSet)
          IN <<[name |-> Strip(SubSeq(text, i, i + n)), pos |-> i - 1]>>
             \o SectionsFrom(text, i + n + 1 + w + Len(CardEndingLit))

\* sorted(sections, key=pos): finditer yields them by increasing start and
\* the sort is stable, so the order is already the result's.
find_cardholder_sections(text) == SectionsFrom(text, 1)

(***************************************************************************)
(* select_target_section_name                                              *)
(***************************************************************************)
\* A variant of ExactIndex that skips the exact-match pass.
ExactIndexSkipped(target_norm, avail) == 0

\* The first loop: the index of the first section whose name, stripped and
\* upper-cased, equals target_norm; 0 when there is none.
ExactIndex(target_norm, avail) ==
  LET hits == {i \in 1..Len(avail) : StrUpper(Strip(avail[i].name)) = target_norm}
  IN IF hits = {} THEN 0 ELSE Min(hits)

\* The score of one section name (lines 94-107).
Score(target_norm, name_norm) ==
  LET target_tokens == TokenSet(target_norm)
      name_tokens == TokenSet(name_norm)
  IN Cardinality(target_tokens \cap name_tokens) * 10
     + (IF Contains(name_norm, target_norm) \/ Contains(target_norm, name_norm)
        THEN 5 ELSE 0)
     + 2 * Cardinality({p \in target_tokens \X name_tokens :
                          StartsWith(p[1], p[2]) \/ StartsWith(p[2], p[1])})

\* candidates: (score, original) of the sections that score above zero, in
\* section order.
Candidates(target_norm, avail) ==
  LET all == Tup([i \in 1..Len(avail) |->
                    [score |-> Score(target_norm, StrUpper(Strip(avail[i].name))),
                     original |-> avail[i].name]], Len(avail))
  IN SelectSeq(all, LAMBDA c : c.score > 0)

\* A variant of BestCandidate that keeps the last candidate of maximal score.
BestCandidateLast(cands) ==
  LET best == Max({i \in 1..Len(cands) :
                     \A j \in 1..Len(cands) : cands[j].score <= cands[i].score})
  IN cands[best].original

\* max(candidates, key=score)[1]: the first candidate of maximal score.
BestCandidate(cands) ==
  LET best == Min({i \in 1..Len(cands) :
                     \A j \in 1..Len(cands) : cands[j].score <= cands[i].score})
  IN cands[best].original

\* A variant of select_target_section_name without the fallback to the first
\* section.
select_without_fallback(target, avail) ==
  LET target_norm == StrUpper(target)
      ex == ExactIndex(target_norm, avail)
      cands == Candidates(target_norm, avail)
  IN IF ex # 0 THEN avail[ex].name
     ELSE IF cands # <<>> THEN BestCandidate(cands)
     ELSE NoName

select_target_section_name(target, avail) ==
  LET target_norm == StrUpper(target)
      ex == ExactIndex(target_norm, avail)
      cands == Candidates(target_norm, avail)
  IN IF ex # 0 THEN avail[ex].name
     ELSE IF cands # <<>> THEN BestCandidate(cands)
     ELSE IF avail # <<>> THEN avail[1].name
     ELSE NoName

(***************************************************************************)
(* extract_transactions_for_name                                           *)
(***************************************************************************)
summary_keywords ==
  << <<"F", "E", "E", "S">>,
     <<"I", "N", "T", "E", "R", "E", "S", "T", " ", "C", "H", "A", "R", "G", "E", "D">>,
     <<"A", "C", "C", "O", "U", "N", "T", " ", "S", "U", "M", "M", "A", "R", "Y">>,
     <<"P", "A", "Y", "M", "E", "N", "T", " ", "I", "N", "F", "O", "R", "M", "A", "T", "I", "O", "N">>,
     <<"L", "A", "T", "E", " ", "F", "E", "E">>,
     <<"T", "O", "T", "A", "L", " ", "C", "R", "E", "D", "I", "T">>,
     <<"T", "O", "T", "A", "L", " ", "D", "E", "B", "I", "T">>,
     <<"A", "B", "O", "U", "T", " ", "T", "R", "A", "I", "L", "I", "N", "G", " ", "I", "N", "T", "E", "R", "E", "S", "T">> >>

\* next((pos for name, pos in sections if name == target_name), None)
TargetPos(target_name, sects) ==
  LET hits == {i \in 1..Len(sects) : sects[i].name = target_name}
  IN IF hits = {} THEN NoPos ELSE sects[Min(hits)].pos

\* next((p for p in positions if p > target_pos), None)
NextCardholderPos(target_pos, sects) ==
  LET positions == {sects[i].pos : i \in 1..Len(sects)}
      later == {p \in positions : p > target_pos}
  IN IF later = {} THEN NoPos ELSE Min(later)

\* re.search(r"^\s*" + keyword, text, IGNORECASE | MULTILINE): the 0-based
\* start of the leftmost match, NoPos when there is none.  ^ matches at the
\* start of the text and after each newline; \s* takes the whole run of
\* whitespace (no keyword starts with whitespace).
KeywordSearch(text, keyword) ==
  LET ms == {i \in 1..Len(text) :
               /\ i = 1 \/ text[i - 1] = "\n"
               /\ LitAtNoCase(text, i + RunLen(text, i, WhiteSet), keyword)}
  IN IF ms = {} THEN NoPos ELSE Min(ms) - 1

\* The loop of lines 143-150: summary_pos, -1 when no keyword matches.
SummaryPos(text, target_pos) ==
  LET after == SubSeq(text, target_pos + 1, Len(text))
      found == {target_pos + KeywordSearch(after, summary_keywords[k]) :
                  k \in {k \in 1..Len(summary_keywords) :
                           KeywordSearch(after, summary_keywords[k]) # NoPos}}
  IN IF found = {} THEN -1 ELSE Min(found)

\* Lines 154-159: the end of the section.
NextPos(text, target_pos, next_cardholder_pos, summary_pos) ==
  LET end_positions == {p \in {next_cardholder_pos, summary_pos} :
                          p # NoPos /\ p > target_pos}
  IN IF end_positions # {} THEN Min(end_positions) ELSE Len(text)

\* re.split on runs of glyphs: the chunks that are not empty, in order (an
\* empty chunk holds no date and yields nothing).
RECURSIVE ChunksFrom(_, _)
ChunksFrom(text, from) ==
  LET starts == {i \in from..Len(text) : text[i] \notin Glyphs}
  IN IF starts = {} THEN <<>>
     ELSE LET i == Min(starts)
              n == CHOOSE k \in 1..(Len(text) + 1 - i) :
                     /\ i + k > Len(text) \/ text[i + k] \in Glyphs
                     /\ \A j \in 0..(k - 1) : text[i + j] \notin Glyphs
          IN <<SubSeq(text, i, i + n - 1)>> \o ChunksFrom(text, i + n)

\* \$([0-9,]+\.[0-9]{2}) at position i: the length of the [0-9,]+ run, 0
\* when there is no match at i.
AmountRun(ch, i) ==
  IF ch[i] # "$" THEN 0
  ELSE LET r == RunLen(ch, i + 1, DigitSet \cup {","})
       IN IF /\ r >= 1 /\ i + r + 3 <= Len(ch) /\ ch[i + r + 1] = "."
             /\ ch[i + r + 2] \in DigitSet /\ ch[i + r + 3] \in DigitSet
          THEN r ELSE 0

\* float(group.replace(',', '')), as cents.
AmountCents(ch, i) ==
  LET r == AmountRun(ch, i)
      whole == SelectSeq(SubSeq(ch, i + 1, i + r), LAMBDA c : c # ",")
  IN 100 * IntOf(whole) + IntOf(SubSeq(ch, i + r + 2, i + r + 3))

\* The body of the loop of lines 164-175 for one chunk: the transactions it
\* appends (one or none).
ChunkTxn(chunk) ==
  LET ch == Collapse(chunk)
      dates == {i \in 1..Len(ch) : DateAt(ch, i)}
      amts == {i \in 1..Len(ch) : AmountRun(ch, i) > 0}
  IN IF dates = {} \/ amts = {} THEN <<>>
     ELSE LET d == Min(dates)
              a == Max(amts)
              merchant == IF a - 1 < d + 8 THEN <<>>
                          ELSE Strip(SubSeq(ch, d + 8, a - 1))
          IN IF StartsWith(StrUpper(merchant), CardEndingUpper) THEN <<>>
             ELSE <<[date |-> SubSeq(ch, d, d + 7), merchant |-> merchant,
                     amount |-> AmountCents(ch, a)]>>

RECURSIVE ConcatAll(_)
ConcatAll(ss) == IF ss = <<>> THEN <<>> ELSE Head(ss) \o ConcatAll(Tail(ss))

ScanSection(section_text) ==
  LET chunks == ChunksFrom(section_text, 1)
  IN ConcatAll(Tup([k \in 1..Len(chunks) |-> ChunkTxn(chunks[k])], Len(chunks)))

\* [target_pos, next_pos, txns]: the locals and the result.  next_pos is
\* NoPos when the function returns before computing it.
extract_transactions_for_name(text, target_name, sects) ==
  LET target_pos == TargetPos(target_name, sects)
  IN IF target_pos = NoPos \/ target_pos = 0
     THEN [target_pos |-> target_pos, next_pos |-> NoPos, txns |-> <<>>]
     ELSE LET next_pos == NextPos(text, target_pos,
                                  NextCardholderPos(target_pos, sects),
                                  SummaryPos(text, target_pos))
          IN [target_pos |-> target_pos, next_pos |-> next_pos,
              txns |-> ScanSection(Slice(text, target_pos, next_pos))]

(***************************************************************************)
(* match_transactions                                                      *)
(***************************************************************************)
\* The amounts (in cents) that occur in the inputs modelled.
Amounts == {60, 110, 949, 950, 1000, 1050, 1051}

\* The match predicate, computed once for every pair of those amounts.
WindowPairs ==
  UNION {IF InWindow(p[1], p[2]) THEN {p} ELSE {} : p \in Amounts \X Amounts}

\* amt - 0.50 <= t['amount'] <= amt + 0.50 (line 208)
Matches(amt, t) ==
  IF amt \in Amounts /\ t \in Amounts THEN <<amt, t>> \in WindowPairs
  ELSE InWindow(amt, t)

\* next((i for i, amt in enumerate(available) if ...), None): the 1-based
\* index of the first pool entry that matches, 0 for None.
FirstFit(pool, t) ==
  LET hits == {i \in 1..Len(pool) : Matches(pool[i], t.amount)}
  IN IF hits = {} THEN 0 ELSE Min(hits)

\* A variant of PopAt that removes nothing.
PopNothing(list, idx) == list

\* list.pop(idx), the list left.
PopAt(list, idx) == SubSeq(list, 1, idx - 1) \o SubSeq(list, idx + 1, Len(list))

\* A variant of MissingAfter that appends every transaction.
MissingAlways(miss, t, idx) == Append(miss, t)

\* Lines 209-213 on missing and matched.
MissingAfter(miss, t, idx) == IF idx # 0 THEN miss ELSE Append(miss, t)

MatchedAfter(m, idx) == IF idx # 0 THEN m + 1 ELSE m

\* x + y on non-negative doubles.
FAdd(x, y) == Round53(MagAdd(x, y), FALSE)

\* sum(t['amount'] for t in list): 0, then the amounts added in list order,
\* each addition rounded.
RECURSIVE SumAmounts(_, _)
SumAmounts(list, n) ==
  IF n = 0 THEN Tup(Zeros(Width), Width)
  ELSE LET before == SumAmounts(list, n - 1)
       IN Tup(FAdd(before, FromCents(list[n].amount)), Width)

\* The number that the bits of a vector write in binary.
RECURSIVE BitsValue(_)
BitsValue(bits) ==
  IF bits = <<>> THEN 0
  ELSE 2 * BitsValue(SubSeq(bits, 1, Len(bits) - 1)) + bits[Len(bits)]

\* n/200, the boundary between two values of two decimals: its expansion cut
\* at the last fraction bit, and whether the cut lost nothing.
Boundary(n) ==
  LET frac == Expand(n % 100, FracBits - 1)
  IN [bits |-> IntPart(n \div 100, IntBits + 1) \o frac.bits,
      exact |-> frac.rem = 0]

\* v < n/200, v = n/200 and v > n/200.
BelowBoundary(v, n) ==
  LET b == Boundary(n)
  IN IF b.exact THEN v # b.bits /\ MagLe(v, b.bits) ELSE MagLe(v, b.bits)

AtBoundary(v, n) == LET b == Boundary(n) IN b.exact /\ v = b.bits

AboveBoundary(v, n) == ~BelowBoundary(v, n) /\ ~AtBoundary(v, n)

\* Whether "{:.2f}" writes the double v as c hundredths: the decimal nearest
\* the exact value, the even one of two equally near.
RoundsTo(v, c) ==
  /\ \/ c = 0
     \/ AboveBoundary(v, 2 * c - 1)
     \/ AtBoundary(v, 2 * c - 1) /\ c % 2 = 0
  /\ \/ BelowBoundary(v, 2 * c + 1)
     \/ AtBoundary(v, 2 * c + 1) /\ c % 2 = 0

GuessBits == 10

\* f"{v:,.2f}" as a number of hundredths, looked for around the value of the
\* leading bits of v.
Format2f(v) ==
  LET guess == (BitsValue(SubSeq(v, 1, IntBits + GuessBits)) * 100) \div 2^GuessBits
  IN CHOOSE c \in Max({0, guess - 1})..(guess + 2) : RoundsTo(v, c)

\* A variant of Results whose missing_total sums the statement transactions.
ResultsMissingFromPdf(sel, per, pdf, excel, m, miss) ==
  [cardholder |-> sel, period_start |-> per.start, period_end |-> per.end,
   pdf_count |-> Len(pdf), pdf_total |-> Format2f(SumAmounts(pdf, Len(pdf))),
   excel_count |-> Len(excel),
   excel_total |-> Format2f(SumAmounts(excel, Len(excel))),
   matched |-> m, missing_count |-> Len(miss),
   missing_total |-> Format2f(SumAmounts(pdf, Len(pdf))),
   missing_transactions |-> miss]

\* Lines 278-294: the results of compare, a total in hundredths.
Results(sel, per, pdf, excel, m, miss) ==
  [cardholder |-> sel, period_start |-> per.start, period_end |-> per.end,
   pdf_count |-> Len(pdf), pdf_total |-> Format2f(SumAmounts(pdf, Len(pdf))),
   excel_count |-> Len(excel),
   excel_total |-> Format2f(SumAmounts(excel, Len(excel))),
   matched |-> m, missing_count |-> Len(miss),
   missing_total |-> Format2f(SumAmounts(miss, Len(miss))),
   missing_transactions |-> miss]

(***************************************************************************)
(* Inputs.                                                                 *)
(***************************************************************************)
\* The closing-date line of a statement.
SegClosing == <<"C", "l", "o", "s", "i", "n", "g", " ", "D", "a", "t", "e",
    " ", "0", "3", "/", "1", "5", "/", "2", "4", "\n">>

\* A cardholder header and the first transaction of the section.
SegJanet == <<"J", "A", "N", "E", "T", " ", "S", "M", "I", "T", "H", " ",
    "C", "a", "r", "d", " ", "E", "n", "d", "i", "n", "g", " ", "1", "\n",
    "|", "0", "1", "/", "0", "2", "/", "2", "4", " ", "S", "H", "O", "P",
    " ", "$", "1", ".", "1", "0", "\n">>

\* A cardholder whose name begins with the letters of a summary keyword.
SegFeeser == <<"F", "E", "E", "S", "E", "R", " ", "B", "O", "B", " ", "C",
    "a", "r", "d", " ", "E", "n", "d", "i", "n", "g", " ", "3", "\n", "|",
    "0", "1", "/", "0", "5", "/", "2", "4", " ", "G", "A", "S", " ", "$",
    "1", "0", ".", "0", "0", "\n">>

\* A transaction line.
SegTxn == <<"|", "0", "1", "/", "0", "3", "/", "2", "4", " ", "C", "A",
    "F", "E", " ", "$", "0", ".", "6", "0", "\n">>

\* Two summary-marker lines.
SegFees == <<"F", "E", "E", "S", "\n">>

SegInterest == <<"I", "n", "t", "e", "r", "e", "s", "t", " ", "C", "h",
    "a", "r", "g", "e", "d", "\n">>

\* Cardholder names as find_cardholder_sections yields them.
NameJanetSmith == <<"J", "A", "N", "E", "T", " ", "S", "M", "I", "T", "H">>

NameCarlosDiaz == <<"C", "A", "R", "L", "O", "S", " ", "D", "I", "A", "Z">>

NameJo == <<"J", "O">>

NameJoJoe == <<"J", "O", " ", "J", "O", "E">>

NameJanet == <<"J", "A", "N", "E", "T">>

\* Person names as derive_name_from_excel_filename yields them (line 48:
\* words of letters and digits joined by single spaces, possibly none).
TargetJanetS == <<"J", "a", "n", "e", "t", "S">>

TargetJanetSp == <<"J", "a", "n", "e", "t", " ", "S">>

TargetJo == <<"J", "o">>

TargetZed == <<"Z", "e", "d">>

TargetJ == <<"J">>

TargetJanetSmith == <<"j", "a", "n", "e", "t", " ", "s", "m", "i", "t",
    "h">>

TargetBob == <<"B", "o", "b">>

TargetEmpty == <<>>

MaxItems == 3
MaxSections == 3
MaxPdf == 2
MaxExcel == 2
MaxRows == 1

\* Sequences over S of length at most n.
SeqsUpTo(S, n) == UNION {[1..k -> S] : k \in 0..n}

Items == {SegClosing, SegJanet, SegFeeser, SegTxn, SegFees, SegInterest}

\* A statement text: with or without a leading closing-date line, then up to
\* MaxItems items.
Documents ==
  {pre \o ConcatAll(body) : pre \in {<<>>, SegClosing},
                            body \in SeqsUpTo(Items, MaxItems)}

CompareTargets == {TargetBob}

SelectTargets == {TargetJanetS, TargetJanetSp, TargetJo, TargetZed, TargetJ,
                  TargetJanetSmith, TargetEmpty}

SelectNames == {NameJanetSmith, NameCarlosDiaz, NameJo, NameJoJoe, NameJanet}

\* Section lists as the locator yields them: offsets strictly increasing.
SectionLists ==
  {Tup([i \in 1..Len(ns) |-> [name |-> ns[i], pos |-> 30 * i - 30]], Len(ns)) :
     ns \in SeqsUpTo(SelectNames, MaxSections)}

StmtAmounts == {60, 949, 950, 1050, 1051}

TabAmounts == {110, 1000, 1050}

DateLit == <<"0", "1", "/", "0", "2", "/", "2", "4">>

ShopLit == <<"S", "H", "O", "P">>

StmtLists ==
  {Tup([i \in 1..Len(as) |-> [date |-> DateLit, merchant |-> ShopLit,
                              amount |-> as[i]]], Len(as)) :
     as \in SeqsUpTo(StmtAmounts, MaxPdf)}

TabLists(S, n) ==
  {Tup([i \in 1..Len(as) |-> [date |-> DateLit, amount |-> as[i]]], Len(as)) :
     as \in SeqsUpTo(S, n)}

\* What read_excel_transactions may return in a run of the whole pipeline:
\* the rows of the workbook that fall in the period (the workbook is outside
\* the model).
CompareAmounts == {1000}

NoPeriod == [err |-> None, start |-> NoDate, end |-> NoDate]

NoSpan == [target_pos |-> NoPos, next_pos |-> NoPos]

(***************************************************************************)
(* The state machine.  entry tells which function the run enters:         *)
(* "compare" (the request handler, from line 262), "select" (a call of    *)
(* select_target_section_name alone) or "match" (compare from line 276,   *)
(* with both transaction lists given).                                    *)
(***************************************************************************)
Blank ==
  /\ period = NoPeriod /\ selected = NoName /\ span = NoSpan
  /\ available = <<>> /\ origin = <<>> /\ missing = <<>> /\ matched = 0
  /\ assign = <<>> /\ totals = None /\ error = None

InitCompare ==
  /\ entry = "compare" /\ pc = "parse"
  /\ pdf_text \in Documents /\ person_name \in CompareTargets
  /\ sections = <<>> /\ pdf_txns = <<>> /\ excel_txns = <<>>
  /\ Blank

InitSelect ==
  /\ entry = "select" /\ pc = "select"
  /\ pdf_text = <<>> /\ person_name \in SelectTargets
  /\ sections \in SectionLists /\ pdf_txns = <<>> /\ excel_txns = <<>>
  /\ Blank

InitMatch ==
  /\ entry = "match" /\ pc = "match"
  /\ pdf_text = <<>> /\ person_name = <<>> /\ sections = <<>>
  /\ pdf_txns \in StmtLists /\ excel_txns \in TabLists(TabAmounts, MaxExcel)
  /\ Blank

Init == InitCompare \/ InitSelect

\* Line 264.
ParsePeriod ==
  /\ pc = "parse"
  /\ LET r == parse_statement_period(pdf_text)
     IN IF r.err # None
        THEN /\ pc' = "error" /\ error' = r.err /\ UNCHANGED period
        ELSE /\ pc' = "sections" /\ period' = r /\ UNCHANGED error
  /\ UNCHANGED <<entry, pdf_text, person_name, sections, selected, span,
                 pdf_txns, excel_txns, available, origin, missing, matched,
                 assign, totals>>

\* Lines 266-268.
FindSections ==
  /\ pc = "sections"
  /\ sections' = find_cardholder_sections(pdf_text)
  /\ IF sections' = <<>>
     THEN pc' = "error" /\ error' = "NoCardholdersFound"
     ELSE pc' = "select" /\ UNCHANGED error
  /\ UNCHANGED <<entry, pdf_text, person_name, period, selected, span,
                 pdf_txns, excel_txns, available, origin, missing, matched,
                 assign, totals>>

\* Lines 270-272; a call of the function alone returns its result.
Select ==
  /\ pc = "select"
  /\ selected' = select_target_section_name(person_name, sections)
  /\ IF entry = "select" THEN pc' = "returned" /\ UNCHANGED error
     ELSE IF selected' = NoName \/ selected' = <<>>
     THEN pc' = "error" /\ error' = "NameNotMatched"
     ELSE pc' = "extract" /\ UNCHANGED error
  /\ UNCHANGED <<entry, pdf_text, person_name, period, sections, span,
                 pdf_txns, excel_txns, available, origin, missing, matched,
                 assign, totals>>

\* Line 274.
Extract ==
  /\ pc = "extract"
  /\ LET r == extract_transactions_for_name(pdf_text, selected, sections)
     IN /\ pdf_txns' = r.txns
        /\ span' = [target_pos |-> r.target_pos, next_pos |-> r.next_pos]
  /\ pc' = "excel"
  /\ UNCHANGED <<entry, pdf_text, person_name, period, sections, selected,
                 excel_txns, available, origin, missing, matched, assign,
                 totals, error>>

\* Line 275.
ReadExcel ==
  /\ pc = "excel"
  /\ excel_txns' \in TabLists(CompareAmounts, MaxRows)
  /\ pc' = "match"
  /\ UNCHANGED <<entry, pdf_text, person_name, period, sections, selected,
                 span, pdf_txns, available, origin, missing, matched, assign,
                 totals, error>>

\* Lines 204-206.  origin[i] is the index in excel_txns of the pool entry
\* available[i]; assign[k] is the index in excel_txns of the record that the
\* k-th statement transaction consumed, 0 when it went to missing.
MatchBegin ==
  /\ pc = "match"
  /\ available' = Tup([i \in 1..Len(excel_txns) |-> excel_txns[i].amount],
                      Len(excel_txns))
  /\ origin' = Tup([i \in 1..Len(excel_txns) |-> i], Len(excel_txns))
  /\ missing' = <<>> /\ matched' = 0 /\ assign' = <<>>
  /\ pc' = "loop"
  /\ UNCHANGED <<entry, pdf_text, person_name, period, sections, selected,
                 span, pdf_txns, excel_txns, totals, error>>

\* One iteration of the loop of lines 207-213.
MatchStep ==
  /\ pc = "loop" /\ Len(assign) < Len(pdf_txns)
  /\ LET t == pdf_txns[Len(assign) + 1]
         idx == FirstFit(available, t)
     IN /\ matched' = MatchedAfter(matched, idx)
        /\ missing' = MissingAfter(missing, t, idx)
        /\ available' = IF idx # 0 THEN PopAt(available, idx) ELSE available
        /\ origin' = IF idx # 0 THEN PopAt(origin, idx) ELSE origin
        /\ assign' = Append(assign, IF idx # 0 THEN origin[idx] ELSE 0)
  /\ UNCHANGED <<entry, pc, pdf_text, person_name, period, sections, selected,
                 span, pdf_txns, excel_txns, totals, error>>

\* Line 214 and lines 276-294.
Totals ==
  /\ pc = "loop" /\ Len(assign) = Len(pdf_txns)
  /\ totals' = Results(selected, period, pdf_txns, excel_txns, matched, missing)
  /\ pc' = "done"
  /\ UNCHANGED <<entry, pdf_text, person_name, period, sections, selected,
                 span, pdf_txns, excel_txns, available, origin, missing,
                 matched, assign, error>>

Next == \/ ParsePeriod \/ FindSections \/ Select \/ Extract \/ ReadExcel
        \/ MatchBegin \/ MatchStep \/ Totals

Spec == Init /\ [][Next]_vars

NextMatch == MatchBegin \/ MatchStep \/ Totals

SpecMatch == InitMatch /\ [][NextMatch]_vars
(***************************************************************************)
(* Properties.                                                             *)
(***************************************************************************)
InMatch == pc \in {"loop", "done"}

\* The records of excel_txns still in the pool when the k-th statement
\* transaction is taken.
PoolBefore(k) ==
  {j \in 1..Len(excel_txns) : \A m \in 1..(k - 1) : assign[m] # j}

\* |t - a| <= 0.50 on exact amounts (cents).
RealWithin(a, t) == a - 50 <= t /\ t <= a + 50

RECURSIVE SumAt(_, _)
SumAt(list, idxs) ==
  IF idxs = {} THEN 0
  ELSE LET k == Max(idxs) IN list[k].amount + SumAt(list, idxs \ {k})

Unmatched == {k \in 1..Len(assign) : assign[k] = 0}

\* The elements of list at the positions idxs, in order.
Pick(list, idxs) ==
  LET keep == Tup([k \in 1..Len(list) |-> [at |-> k, val |-> list[k]]], Len(list))
      kept == SelectSeq(keep, LAMBDA e : e.at \in idxs)
  IN Tup([k \in 1..Len(kept) |-> kept[k].val], Len(kept))

\* C1: matched_count + |missing| is the number of statement transactions
\* processed so far, after every iteration and at the end.
Claim_C1 ==
  InMatch =>
    /\ matched + Len(missing) = Len(assign)
    /\ pc = "done" =>
         /\ matched + Len(missing) = Len(pdf_txns)
         /\ totals.matched + totals.missing_count = totals.pdf_count

Witness_C1 ==
  pc = "done" /\ entry = "match" /\ matched >= 1 /\ Len(missing) >= 1

\* C2: no tabular record is consumed twice; the pool is the records not yet
\* consumed, in their original order, so its size is the number of records
\* less matched_count, and matched_count never exceeds the number of records.
Claim_C2 ==
  InMatch =>
    /\ \A k1, k2 \in 1..Len(assign) :
         k1 # k2 /\ assign[k1] # 0 => assign[k1] # assign[k2]
    /\ matched = Cardinality({k \in 1..Len(assign) : assign[k] # 0})
    /\ matched <= Len(excel_txns)
    /\ Len(available) = Len(excel_txns) - matched
    /\ available = Pick(Tup([j \in 1..Len(excel_txns) |-> excel_txns[j].amount],
                            Len(excel_txns)),
                        PoolBefore(Len(assign) + 1))

\* A record was consumed, and a later transaction within tolerance of that
\* record found the pool without it.
Witness_C2 ==
  /\ pc = "done" /\ entry = "match" /\ matched >= 1
  /\ \E k \in 1..Len(assign), m \in 1..Len(assign) :
       /\ m < k /\ assign[m] # 0 /\ assign[k] = 0
       /\ RealWithin(excel_txns[assign[m]].amount, pdf_txns[k].amount)

\* C3 as stated: a statement transaction is matched exactly when some pooled
\* amount a has a - 0.50 <= t <= a + 0.50.
Orig_C3 ==
  InMatch =>
    \A k \in 1..Len(assign) :
      assign[k] # 0 <=>
        \E j \in PoolBefore(k) :
          RealWithin(excel_txns[j].amount, pdf_txns[k].amount)

\* C6: missing_total is the sum over exactly the unmatched transactions, the
\* statement total is the sum over all of them, and so the statement total
\* is missing_total plus the sum over the matched ones.
Claim_C6 ==
  pc = "done" =>
    /\ totals.missing_transactions = Pick(pdf_txns, Unmatched)
    /\ totals.missing_total = SumAt(pdf_txns, Unmatched)
    /\ totals.pdf_total = SumAt(pdf_txns, 1..Len(pdf_txns))
    /\ totals.pdf_total =
         totals.missing_total + SumAt(pdf_txns, (1..Len(pdf_txns)) \ Unmatched)

Witness_C6 ==
  /\ pc = "done" /\ entry = "match" /\ matched >= 1 /\ Len(missing) >= 1
  /\ totals.missing_total > 0 /\ totals.missing_total < totals.pdf_total

\* C8 as stated: each transaction takes the lowest-index remaining record
\* within tolerance, the pool keeps its order, and a transaction with no
\* record within tolerance goes to missing, in statement order.
Orig_C8 ==
  InMatch =>
    /\ \A k \in 1..Len(assign) :
         LET fit == {j \in PoolBefore(k) :
                       RealWithin(excel_txns[j].amount, pdf_txns[k].amount)}
         IN assign[k] = IF fit = {} THEN 0 ELSE Min(fit)
    /\ missing = Pick(pdf_txns, Unmatched)
    /\ origin = Pick(Tup([j \in 1..Len(excel_txns) |-> j], Len(excel_txns)),
                     PoolBefore(Len(assign) + 1))

Selected == pc \in {"returned", "extract"}

\* Case and whitespace normalisation of a name.
ClaimNorm(name) == StrUpper(Strip(name))

ExactAt == {i \in 1..Len(sections) :
              ClaimNorm(sections[i].name) = ClaimNorm(person_name)}

\* C4: when some section name equals the target after normalisation, the
\* name returned is such a section's name, wherever it stands and whatever
\* the other names score.
Claim_C4 ==
  Selected /\ ExactAt # {} =>
    /\ ClaimNorm(selected) = ClaimNorm(person_name)
    /\ \E i \in 1..Len(sections) : sections[i].name = selected

\* The exact match stands after a different name that scores higher.
Witness_C4 ==
  /\ Selected /\ ExactAt # {}
  /\ \E i \in ExactAt, j \in 1..Len(sections) :
       /\ j < i /\ selected = sections[i].name
       /\ Score(StrUpper(person_name), sections[j].name)
            > Score(StrUpper(person_name), sections[i].name)

\* The score of the claim: 10 per shared token, 5 for containment either
\* way, 2 per pair of tokens one of which is a prefix of the other.
ClaimScore(target, name) ==
  LET t == ClaimNorm(target)
      n == ClaimNorm(name)
      shared == {x \in TokenSet(t) : x \in TokenSet(n)}
      pairs == {x \in TokenSet(t) \X TokenSet(n) :
                  StartsWith(x[1], x[2]) \/ StartsWith(x[2], x[1])}
  IN 10 * Cardinality(shared)
     + (IF Contains(t, n) \/ Contains(n, t) THEN 5 ELSE 0)
     + 2 * Cardinality(pairs)

TopScored ==
  {i \in 1..Len(sections) :
     \A j \in 1..Len(sections) :
       ClaimScore(person_name, sections[j].name)
         <= ClaimScore(person_name, sections[i].name)}

\* C9: without an exact match the name returned is the first of those with
\* the maximal score (the first section when every score is zero); for
\* JANET SMITH then CARLOS DIAZ and the target JanetS it is JANET SMITH.
Claim_C9 ==
  /\ Selected /\ ExactAt = {} /\ sections # <<>> =>
       selected = sections[Min(TopScored)].name
  /\ Selected /\ person_name = TargetJanetS /\ Len(sections) = 2
       /\ sections[1].name = NameJanetSmith /\ sections[2].name = NameCarlosDiaz
       => selected = NameJanetSmith

\* Two different names tie on a maximal score above zero.
Witness_C9 ==
  /\ Selected /\ ExactAt = {}
  /\ \E i, j \in TopScored :
       /\ i < j /\ sections[i].name # sections[j].name
       /\ ClaimScore(person_name, sections[i].name) > 0
       /\ selected = sections[i].name

\* C7: the selection is absent exactly for an empty section list; a run of
\* compare fails with PeriodNotFound before it looks for sections, with
\* NoCardholdersFound only after a period was found, and never with
\* NameNotMatched when a section was located.
Claim_C7 ==
  /\ Selected \/ error = "NameNotMatched" =>
       (selected = NoName <=> sections = <<>>)
  /\ pc = "error" /\ ClosingMatches(pdf_text) = {} => error = "PeriodNotFound"
  /\ error \in {"PeriodNotFound", "BadDate"} =>
       period = NoPeriod /\ sections = <<>> /\ selected = NoName
  /\ error = "NoCardholdersFound" =>
       period.end # NoDate /\ sections = <<>> /\ selected = NoName
  /\ error = "NameNotMatched" => period.end # NoDate /\ sections = <<>>

\* A run of compare where no name scored: the first section was selected.
Witness_C7 ==
  /\ entry = "compare" /\ pc = "extract" /\ sections # <<>>
  /\ ExactAt = {} /\ \A i \in 1..Len(sections) :
                       ClaimScore(person_name, sections[i].name) = 0
  /\ selected = sections[1].name

\* The 0-based offsets of the lines that begin, after whitespace, with a
\* summary marker.
MarkerLines(text) ==
  {p \in 0..(Len(text) - 1) :
     /\ p = 0 \/ text[p] = "\n"
     /\ \E k \in 1..Len(summary_keywords) :
          LitAtNoCase(text, p + 1 + RunLen(text, p + 1, WhiteSet),
                      summary_keywords[k])}

\* The end of the section that starts at start: the next section or the
\* earliest marker line after start, whichever comes first, else the end.
ClaimBoundary(text, start, sects) ==
  LET ends == {p \in MarkerLines(text) \cup {sects[i].pos : i \in 1..Len(sects)} :
                 p > start}
  IN IF ends = {} THEN Len(text) ELSE Min(ends)

\* C5 as stated: the section scanned ends at that boundary, so that nothing
\* at or after a marker line is extracted.
Orig_C5 ==
  pc = "excel" /\ span.next_pos # NoPos =>
    /\ span.next_pos = ClaimBoundary(pdf_text, span.target_pos, sections)
    /\ pdf_txns = ScanSection(Slice(pdf_text, span.target_pos,
                    ClaimBoundary(pdf_text, span.target_pos, sections)))

\* C10 as stated: for a name in the section list the span scanned starts at
\* the first section of that name, at any offset >= 0; only a name not in
\* the list returns without a scan.
Orig_C10 ==
  pc = "excel" =>
    LET hits == {i \in 1..Len(sections) : sections[i].name = selected}
    IN IF hits = {} THEN pdf_txns = <<>> /\ span.next_pos = NoPos
       ELSE /\ span.target_pos = sections[Min(hits)].pos
            /\ span.next_pos # NoPos
            /\ pdf_txns = ScanSection(Slice(pdf_text, span.target_pos,
                                            span.next_pos))
====
